---- MODULE Spec2Model ----
(***************************************************************************)
(* State-machine model of src/src/main.c: the file loader                  *)
(* read_entire_file, the GLFW callbacks, process_input and main (window    *)
(* and loader start-up, shader compilation, program linking, geometry      *)
(* upload, render loop, teardown).  The GLFW / OpenGL library calls are     *)
(* modelled by their documented effect on the windowing and GL state.      *)
(***************************************************************************)
EXTENDS Integers, Sequences, FiniteSets, TLC

\* ------------------------------------------------------------------ bounds
\* Longest shader source file, in bytes.
MaxFileLen == 2
\* Saturation point of the counter of draw calls issued after the close flag.
DrawCap == 2

\* Bytes a shader source file may hold (text, so never 0).
FileBytes == {1, 2}
\* Bytes freshly malloc'ed memory (and the byte behind the block) may hold.
Garbage == {0, 7}
\* Values an uninitialised int on the stack may hold.
StackJunk == {0, 1}
\* Sizes a resize event may report.
Sizes == {<<800, 600>>, <<1280, 720>>}

RECURSIVE SeqsUpTo(_)
SeqsUpTo(n) ==
    IF n = 0 THEN {<<>>}
    ELSE LET shorter == SeqsUpTo(n - 1)
         IN shorter \cup {Append(s, b) : s \in {t \in shorter : Len(t) = n - 1}, b \in FileBytes}

\* The files the two fixed paths may name.
Files == SeqsUpTo(MaxFileLen)

\* ------------------------------------------------------------------ GL names
\* Object names handed out by glCreateShader / glCreateProgram (one name space).
vertex_shader == 1
fragment_shader == 2
shader_program == 3
\* Names handed out by glGenVertexArrays.
VAO == 1
RECT_VAO == 2
\* Names handed out by glGenBuffers.
VBO == 1
RECT_VBO == 2
EBO == 3

VARIABLES
    pc,                 \* position of main
    exit_code,          \* value returned by main (meaningful once pc = "done")
    stdout,             \* lines printed so far
    vs_file, fs_file,   \* contents of the two shader files on disk
    vs_code, fs_code,   \* struct file_contents (with the block's allocation size and the indices stored to)
    window_width, window_height,
    glfw_init,          \* glfwInit has been called
    glfw_window,        \* "none", "open" or "null"
    terminate_calls,    \* number of glfwTerminate calls
    framebuffer_size_cb, window_size_cb,   \* callbacks registered with GLFW
    should_close,       \* the window's close flag
    escape_key,         \* last reported state of the Escape key
    last_size,          \* size of the most recently dispatched resize event, <<>> if none
    glad,               \* "unloaded", "loaded" or "failed" (gladLoadGLLoader)
    viewport,
    shaders, programs,  \* GL shader and program objects by name
    vs_success, fs_success, sp_success,
    current_program,
    bound_vao, array_buffer,
    vaos,               \* vertex array objects by name
    buffers,            \* buffer objects by name
    buffer_data_calls,  \* number of glBufferData calls
    loop_entered,       \* the while condition has been evaluated at least once
    draws_since_close   \* glDrawElements calls issued with the close flag set

vars == <<pc, exit_code, stdout, vs_file, fs_file, vs_code, fs_code,
          window_width, window_height, glfw_init, glfw_window, terminate_calls,
          framebuffer_size_cb, window_size_cb, should_close, escape_key, last_size,
          glad, viewport, shaders, programs, vs_success, fs_success,
          sp_success, current_program, bound_vao, array_buffer, vaos, buffers,
          buffer_data_calls, loop_entered, draws_since_close>>

fileVars == <<vs_file, fs_file, vs_code, fs_code>>
sizeVars == <<window_width, window_height>>
glfwVars == <<glfw_init, glfw_window, terminate_calls, framebuffer_size_cb,
              window_size_cb, should_close, escape_key, last_size>>
shaderVars == <<shaders, programs, vs_success, fs_success, sp_success>>
geomVars == <<bound_vao, array_buffer, vaos, buffers, buffer_data_calls>>
loopVars == <<loop_entered, draws_since_close>>

Min(a, b) == IF a < b THEN a ELSE b

\* read_entire_file with the "+ 1" of line 22 left out.
read_entire_file_exact_size(file, garbage) ==
    LET cur_pos == 0
        end_pos == Len(file)
        size == end_pos
        block == [i \in 0..size |-> garbage[i]]
        count == Min(size - 1, Len(file) - cur_pos)
        filled == [i \in 0..size |->
                      IF i < count THEN file[cur_pos + i + 1] ELSE block[i]]
        stored == [filled EXCEPT ![size] = 0]
    IN  [data |-> stored, size |-> size, alloc |-> size,
         written |-> {i \in 0..size : i < count} \cup {size}]

\* ------------------------------------------------------------------ file loader
\* read_entire_file on an existing file; garbage is what malloc's block and the
\* byte right behind it hold before the call.  data is indexed from 0; index
\* alloc is the byte behind the block.
read_entire_file(file, garbage) ==
    LET cur_pos == 0                                  \* ftell right after fopen
        end_pos == Len(file)                          \* ftell after fseek(SEEK_END)
        size == end_pos + 1
        block == [i \in 0..size |-> garbage[i]]       \* malloc(size)
        count == Min(size - 1, Len(file) - cur_pos)   \* bytes fread delivers
        filled == [i \in 0..size |->
                      IF i < count THEN file[cur_pos + i + 1] ELSE block[i]]
        stored == [filled EXCEPT ![size] = 0]         \* result.data[result.size] = 0
    IN  [data |-> stored, size |-> size, alloc |-> size,
         written |-> {i \in 0..size : i < count} \cup {size}]

\* The null-terminated string starting at data[0], as glShaderSource with a NULL
\* length array reads it.
CString(data) ==
    LET zeros == {i \in DOMAIN data : data[i] = 0}
        len == IF zeros = {} THEN Cardinality(DOMAIN data)
               ELSE CHOOSE z \in zeros : \A y \in zeros : z <= y
    IN  [i \in 1..len |-> data[i - 1]]

NoFile == [data |-> <<>>, size |-> 0, alloc |-> 0, written |-> {}]

Init ==
    /\ pc = "read_vs"
    /\ exit_code = 0
    /\ stdout = <<>>
    /\ vs_file \in Files
    /\ fs_file \in Files
    /\ vs_code = NoFile
    /\ fs_code = NoFile
    /\ window_width = 1280
    /\ window_height = 720
    /\ glfw_init = FALSE
    /\ glfw_window = "none"
    /\ terminate_calls = 0
    /\ framebuffer_size_cb = "NULL"
    /\ window_size_cb = "NULL"
    /\ should_close = FALSE
    /\ escape_key = FALSE
    /\ last_size = <<>>
    /\ glad = "unloaded"
    /\ viewport = <<0, 0>>
    /\ shaders = <<>>
    /\ programs = <<>>
    /\ vs_success = 0
    /\ fs_success = 0
    /\ sp_success = 0
    /\ current_program = 0
    /\ bound_vao = 0
    /\ array_buffer = 0
    /\ vaos = <<>>
    /\ buffers = <<>>
    /\ buffer_data_calls = 0
    /\ loop_entered = FALSE
    /\ draws_since_close = 0

\* main, line 57
LoadVertexSource ==
    /\ pc = "read_vs"
    /\ \E garbage \in [0..(MaxFileLen + 1) -> Garbage] :
          vs_code' = read_entire_file(vs_file, garbage)
    /\ pc' = "read_fs"
    /\ UNCHANGED <<exit_code, stdout, vs_file, fs_file, fs_code, sizeVars, glfwVars,
                   glad, viewport, shaderVars, current_program, geomVars, loopVars>>

\* main, line 58
LoadFragmentSource ==
    /\ pc = "read_fs"
    /\ \E garbage \in [0..(MaxFileLen + 1) -> Garbage] :
          fs_code' = read_entire_file(fs_file, garbage)
    /\ pc' = "create_window"
    /\ UNCHANGED <<exit_code, stdout, vs_file, fs_file, vs_code, sizeVars, glfwVars,
                   glad, viewport, shaderVars, current_program, geomVars, loopVars>>

\* ------------------------------------------------------------------ callbacks
\* window_size_callback, lines 34-39: the new values of
\* <<window_width, window_height, viewport>>.
window_size_callback(width, height) ==
    <<width, height, <<width, height>>>>

\* framebuffer_size_callback, lines 42-45: the new values of
\* <<window_width, window_height, viewport>>.
framebuffer_size_callback(width, height) ==
    <<window_width, window_height, <<width, height>>>>

\* What GLFW does with a resize event: it calls the registered window-size
\* callback, then the registered framebuffer-size callback.
DispatchResize(width, height) ==
    LET afterWindow ==
            IF window_size_cb = "window_size_callback"
            THEN window_size_callback(width, height)
            ELSE <<window_width, window_height, viewport>>
    IN  IF framebuffer_size_cb = "framebuffer_size_callback"
        THEN <<afterWindow[1], afterWindow[2], framebuffer_size_callback(width, height)[3]>>
        ELSE afterWindow

\* ------------------------------------------------------------------ start-up
\* main, lines 61-72, glfwCreateWindow returned a window.
CreateWindowOk ==
    /\ pc = "create_window"
    /\ glfw_init' = TRUE
    /\ glfw_window' = "open"
    /\ viewport' = <<window_width, window_height>>     \* glfwMakeContextCurrent
    /\ framebuffer_size_cb' = "framebuffer_size_callback"
    /\ pc' = "load_gl"
    /\ UNCHANGED <<exit_code, stdout, fileVars, sizeVars, terminate_calls, window_size_cb,
                   should_close, escape_key, last_size, glad, shaderVars,
                   current_program, geomVars, loopVars>>

\* main, lines 61-70, glfwCreateWindow returned NULL.
CreateWindowFail ==
    /\ pc = "create_window"
    /\ glfw_init' = TRUE
    /\ glfw_window' = "null"
    /\ stdout' = Append(stdout, "Failed to create GLFW window")
    /\ terminate_calls' = terminate_calls + 1
    /\ exit_code' = -1
    /\ pc' = "done"
    /\ UNCHANGED <<fileVars, sizeVars, framebuffer_size_cb, window_size_cb, should_close,
                   escape_key, last_size, glad, viewport, shaderVars,
                   current_program, geomVars, loopVars>>

\* main, line 75, gladLoadGLLoader returned true.
LoadGLOk ==
    /\ pc = "load_gl"
    /\ glad' = "loaded"
    /\ pc' = "compile_vs"
    /\ UNCHANGED <<exit_code, stdout, fileVars, sizeVars, glfwVars, viewport, shaderVars,
                   current_program, geomVars, loopVars>>

\* LoadGLFail returning 1 instead of -1.
LoadGLFailReturnsOne ==
    /\ pc = "load_gl"
    /\ glad' = "failed"
    /\ stdout' = Append(stdout, "Failed to initialize GLAD")
    /\ exit_code' = 1
    /\ pc' = "done"
    /\ UNCHANGED <<fileVars, sizeVars, glfwVars, viewport, shaderVars,
                   current_program, geomVars, loopVars>>

\* main, lines 75-79, gladLoadGLLoader returned false.
LoadGLFail ==
    /\ pc = "load_gl"
    /\ glad' = "failed"
    /\ stdout' = Append(stdout, "Failed to initialize GLAD")
    /\ exit_code' = -1
    /\ pc' = "done"
    /\ UNCHANGED <<fileVars, sizeVars, glfwVars, viewport, shaderVars,
                   current_program, geomVars, loopVars>>

\* ------------------------------------------------------------------ shaders
Bool2Int(b) == IF b THEN 1 ELSE 0

\* glCreateShader + glShaderSource + glCompileShader: the shader object, given
\* the compiler's verdict on the source.
CompiledShader(type, data, compiles) ==
    [type |-> type, source |-> CString(data), compile_status |-> compiles,
     delete_flag |-> FALSE]

\* CompileVertexShader treating a compile failure as fatal (return -1).
CompileVertexShaderFatal ==
    /\ pc = "compile_vs"
    /\ \E compiles \in BOOLEAN :
          /\ shaders' = shaders @@
                (vertex_shader :> CompiledShader("GL_VERTEX_SHADER", vs_code.data, compiles))
          /\ vs_success' = Bool2Int(compiles)
          /\ stdout' = IF Bool2Int(compiles) = 0
                       THEN Append(stdout, "ERROR::SHADER::VERTEX::COMPILATION_FAILED")
                       ELSE stdout
          /\ pc' = IF compiles THEN "compile_fs" ELSE "done"
          /\ exit_code' = IF compiles THEN exit_code ELSE -1
    /\ UNCHANGED <<fileVars, sizeVars, glfwVars, glad, viewport, programs,
                   fs_success, sp_success, current_program, geomVars, loopVars>>

\* main, lines 88-101
CompileVertexShader ==
    /\ pc = "compile_vs"
    /\ \E compiles \in BOOLEAN :
          /\ shaders' = shaders @@
                (vertex_shader :> CompiledShader("GL_VERTEX_SHADER", vs_code.data, compiles))
          /\ vs_success' = Bool2Int(compiles)          \* glGetShaderiv(GL_COMPILE_STATUS)
          /\ stdout' = IF Bool2Int(compiles) = 0
                       THEN Append(stdout, "ERROR::SHADER::VERTEX::COMPILATION_FAILED")
                       ELSE stdout
    /\ pc' = "compile_fs"
    /\ UNCHANGED <<exit_code, fileVars, sizeVars, glfwVars, glad, viewport, programs,
                   fs_success, sp_success, current_program, geomVars, loopVars>>

\* main, lines 103-116
CompileFragmentShader ==
    /\ pc = "compile_fs"
    /\ \E compiles \in BOOLEAN :
          /\ shaders' = shaders @@
                (fragment_shader :> CompiledShader("GL_FRAGMENT_SHADER", fs_code.data, compiles))
          /\ fs_success' = Bool2Int(compiles)          \* glGetShaderiv(GL_COMPILE_STATUS)
          /\ stdout' = IF Bool2Int(compiles) = 0
                       THEN Append(stdout, "ERROR::SHADER::FRAGMENT::COMPILATION_FAILED")
                       ELSE stdout
    /\ pc' = "link"
    /\ UNCHANGED <<exit_code, fileVars, sizeVars, glfwVars, glad, viewport, programs,
                   vs_success, sp_success, current_program, geomVars, loopVars>>

\* glGetProgramiv(program, pname, &param): the value param holds afterwards.
\* GL_COMPILE_STATUS is no parameter of a program object: the call raises
\* GL_INVALID_ENUM and leaves param as it was.
glGetProgramiv(program, pname, param) ==
    IF pname = "GL_LINK_STATUS" THEN Bool2Int(program.link_status) ELSE param

\* main, lines 119-133.  The link succeeds only if both attached shaders
\* compiled and the linker accepts them; sp_success is declared without an
\* initialiser, so it starts as whatever the stack holds.
LinkProgram ==
    /\ pc = "link"
    /\ \E accepts \in BOOLEAN, junk \in StackJunk :
          LET attached == {vertex_shader, fragment_shader}
              linked == [attached |-> attached,
                         link_status |-> accepts /\ \A s \in attached : shaders[s].compile_status]
              status == glGetProgramiv(linked, "GL_COMPILE_STATUS", junk)
          IN  /\ programs' = programs @@ (shader_program :> linked)
              /\ sp_success' = status
              /\ stdout' = IF status = 0
                           THEN Append(stdout, "ERROR::SHADER::PROGRAM::COMPILATION_FAILED")
                           ELSE stdout
    /\ pc' = "use_program"
    /\ UNCHANGED <<exit_code, fileVars, sizeVars, glfwVars, glad, viewport, shaders,
                   vs_success, fs_success, current_program, geomVars, loopVars>>

\* glUseProgram(program): the current program afterwards.  A program that is
\* not linked successfully raises GL_INVALID_OPERATION and leaves the current
\* program as it was.
glUseProgram(program) ==
    IF programs[program].link_status THEN program ELSE current_program

\* main, lines 136-140
UseProgramDeleteShaders ==
    /\ pc = "use_program"
    /\ current_program' = glUseProgram(shader_program)
    /\ shaders' = [s \in DOMAIN shaders |-> [shaders[s] EXCEPT !.delete_flag = TRUE]]
    /\ pc' = "upload_triangle"
    /\ UNCHANGED <<exit_code, stdout, fileVars, sizeVars, glfwVars, glad, viewport,
                   programs, vs_success, fs_success, sp_success, geomVars, loopVars>>

\* ------------------------------------------------------------------ geometry
\* Coordinates in units of 0.5.  main, lines 81-85.
vertices == <<-1, -1, 0,   1, -1, 0,   0, 1, 0>>
\* main, lines 161-166.
rect_vertices == <<1, 1, 0,   1, -1, 0,   -1, -1, 0,   -1, 1, 0>>
\* main, lines 167-170.
indices == <<0, 1, 3,   1, 2, 3>>

\* glVertexAttribPointer(0, 3, GL_FLOAT, GL_FALSE, 3 * sizeof(float), 0) followed
\* by glEnableVertexAttribArray(0), with `buffer` bound to GL_ARRAY_BUFFER.
Attrib0(buffer) == [enabled |-> TRUE, buffer |-> buffer, size |-> 3, stride |-> 3]

\* main, lines 143-159
UploadTriangle ==
    /\ pc = "upload_triangle"
    /\ bound_vao' = VAO
    /\ array_buffer' = VBO
    /\ buffers' = buffers @@ (VBO :> [target |-> "GL_ARRAY_BUFFER", data |-> vertices])
    /\ buffer_data_calls' = buffer_data_calls + 1
    /\ vaos' = vaos @@ (VAO :> [element_buffer |-> 0, attrib0 |-> Attrib0(VBO)])
    /\ pc' = "upload_rect"
    /\ UNCHANGED <<exit_code, stdout, fileVars, sizeVars, glfwVars, glad, viewport,
                   shaderVars, current_program, loopVars>>

\* main, lines 172-187
UploadRect ==
    /\ pc = "upload_rect"
    /\ bound_vao' = RECT_VAO
    /\ array_buffer' = RECT_VBO
    /\ buffers' = buffers @@
          (RECT_VBO :> [target |-> "GL_ARRAY_BUFFER", data |-> rect_vertices]) @@
          (EBO :> [target |-> "GL_ELEMENT_ARRAY_BUFFER", data |-> indices])
    /\ buffer_data_calls' = buffer_data_calls + 2
    /\ vaos' = vaos @@ (RECT_VAO :> [element_buffer |-> EBO, attrib0 |-> Attrib0(RECT_VBO)])
    /\ pc' = "loop"
    /\ UNCHANGED <<exit_code, stdout, fileVars, sizeVars, glfwVars, glad, viewport,
                   shaderVars, current_program, loopVars>>

\* ------------------------------------------------------------------ render loop
\* LoopCheck testing the Escape key instead of the window's close flag.
LoopCheckOnEscape ==
    /\ pc = "loop"
    /\ loop_entered' = TRUE
    /\ pc' = IF escape_key THEN "terminate" ELSE "input"
    /\ UNCHANGED <<exit_code, stdout, fileVars, sizeVars, glfwVars, glad, viewport,
                   shaderVars, current_program, geomVars, draws_since_close>>

\* main, line 189: the while condition.
LoopCheck ==
    /\ pc = "loop"
    /\ loop_entered' = TRUE
    /\ pc' = IF should_close THEN "terminate" ELSE "input"
    /\ UNCHANGED <<exit_code, stdout, fileVars, sizeVars, glfwVars, glad, viewport,
                   shaderVars, current_program, geomVars, draws_since_close>>

\* process_input, lines 47-53: the close flag afterwards.
process_input ==
    IF escape_key THEN TRUE ELSE should_close

\* main, line 191
ProcessInput ==
    /\ pc = "input"
    /\ should_close' = process_input
    /\ pc' = "render"
    /\ UNCHANGED <<exit_code, stdout, fileVars, sizeVars, glfw_init, glfw_window,
                   terminate_calls, framebuffer_size_cb, window_size_cb, escape_key,
                   last_size, glad, viewport, shaderVars, current_program,
                   geomVars, loopVars>>

\* PrepareDraw binding the triangle's VAO instead of RECT_VAO.
PrepareDrawTriangle ==
    /\ pc = "render"
    /\ current_program' = glUseProgram(shader_program)
    /\ bound_vao' = VAO
    /\ pc' = "draw"
    /\ UNCHANGED <<exit_code, stdout, fileVars, sizeVars, glfwVars, glad, viewport,
                   shaderVars, array_buffer, vaos, buffers, buffer_data_calls, loopVars>>

\* main, lines 195-201: clear, glUseProgram, glBindVertexArray(RECT_VAO).
PrepareDraw ==
    /\ pc = "render"
    /\ current_program' = glUseProgram(shader_program)
    /\ bound_vao' = RECT_VAO
    /\ pc' = "draw"
    /\ UNCHANGED <<exit_code, stdout, fileVars, sizeVars, glfwVars, glad, viewport,
                   shaderVars, array_buffer, vaos, buffers, buffer_data_calls, loopVars>>

\* main, lines 205-206: glDrawElements, glBindVertexArray(0).
DrawElements ==
    /\ pc = "draw"
    /\ draws_since_close' = IF should_close
                            THEN Min(draws_since_close + 1, DrawCap)
                            ELSE draws_since_close
    /\ bound_vao' = 0
    /\ pc' = "present"
    /\ UNCHANGED <<exit_code, stdout, fileVars, sizeVars, glfwVars, glad, viewport,
                   shaderVars, current_program, array_buffer, vaos, buffers,
                   buffer_data_calls, loop_entered>>

\* main, lines 209-210: glfwSwapBuffers, then glfwPollEvents, which dispatches
\* what the OS queued: at most one resize, a close request, the Escape key's state.
Present ==
    /\ pc = "present"
    /\ \E resize \in {<<>>} \cup Sizes, close \in BOOLEAN, key \in BOOLEAN :
          /\ IF resize = <<>>
             THEN UNCHANGED <<window_width, window_height, viewport, last_size>>
             ELSE LET after == DispatchResize(resize[1], resize[2])
                  IN  /\ window_width' = after[1]
                      /\ window_height' = after[2]
                      /\ viewport' = after[3]
                      /\ last_size' = resize
          /\ should_close' = (should_close \/ close)
          /\ escape_key' = key
    /\ pc' = "loop"
    /\ UNCHANGED <<exit_code, stdout, fileVars, glfw_init, glfw_window, terminate_calls,
                   framebuffer_size_cb, window_size_cb, glad, shaderVars,
                   current_program, geomVars, loopVars>>

\* main, lines 213-214
Terminate ==
    /\ pc = "terminate"
    /\ terminate_calls' = terminate_calls + 1
    /\ exit_code' = 0
    /\ pc' = "done"
    /\ UNCHANGED <<stdout, fileVars, sizeVars, glfw_init, glfw_window, framebuffer_size_cb,
                   window_size_cb, should_close, escape_key, last_size, glad,
                   viewport, shaderVars, current_program, geomVars, loopVars>>

Next ==
    \/ LoadVertexSource
    \/ LoadFragmentSource
    \/ CreateWindowOk
    \/ CreateWindowFail
    \/ LoadGLOk
    \/ LoadGLFail
    \/ CompileVertexShader
    \/ CompileFragmentShader
    \/ LinkProgram
    \/ UseProgramDeleteShaders
    \/ UploadTriangle
    \/ UploadRect
    \/ LoopCheck
    \/ ProcessInput
    \/ PrepareDraw
    \/ DrawElements
    \/ Present
    \/ Terminate

Spec == Init /\ [][Next]_vars

\* main runs on one thread and every call it makes returns, so it always takes
\* its next step.
\* Control flow does not read the bytes of the shader files, so the liveness
\* specification ranges over their lengths only.
PlainFiles == {f \in Files : \A i \in 1..Len(f) : f[i] = 1}
FairInit == Init /\ vs_file \in PlainFiles /\ fs_file \in PlainFiles
FairSpec == FairInit /\ [][Next]_vars /\ WF_vars(Next)

\* ------------------------------------------------------------------ properties
Printed(line) == \E i \in 1..Len(stdout) : stdout[i] = line

\* C1: main returns 0 exactly when the render loop was entered and left through
\* the close flag, and -1 exactly when glfwCreateWindow returned NULL or
\* gladLoadGLLoader returned false; it returns nothing else, and on both -1
\* paths the loop is never entered and no shader is compiled.
ExitCodeContract ==
    pc = "done" =>
        /\ exit_code \in {0, -1}
        /\ (exit_code = 0) <=> (loop_entered /\ should_close)
        /\ (exit_code = -1) <=> (glfw_window = "null" \/ glad = "failed")
        /\ (exit_code = -1) => (~loop_entered /\ shaders = <<>>)

\* C1 witness: main has returned -1 after gladLoadGLLoader failed.
ExitAfterLoaderFailure ==
    pc = "done" /\ exit_code = -1 /\ glfw_window = "open" /\ glad = "failed"

\* C2: once the close flag is set it is never cleared, the loop body is not
\* started again (so at most one more glDrawElements call is issued), and main
\* goes on to call glfwTerminate and return 0.
CloseFlagEndsLoop ==
    /\ [][should_close => should_close']_vars
    /\ [](~(pc = "input" /\ should_close))
    /\ [](draws_since_close <= 1)
    /\ should_close ~> (pc = "done" /\ exit_code = 0 /\ terminate_calls = 1)

\* C2 witness: Escape set the flag, one more draw was issued, main returned.
ClosedByEscapeAfterLastDraw ==
    pc = "done" /\ should_close /\ draws_since_close = 1

\* The struct read_entire_file is specified to return for `file`.
Loaded(file, code) ==
    /\ code.size = Len(file) + 1
    /\ code.alloc = Len(file) + 1
    /\ \A i \in 0..(Len(file) - 1) : code.data[i] = file[i + 1]

\* C3: for a file of n bytes read_entire_file returns size n+1, a block of
\* exactly n+1 bytes, and the file's bytes in order in the first n of them.
LoaderSizeAndContents ==
    /\ pc # "read_vs" => Loaded(vs_file, vs_code)
    /\ pc \notin {"read_vs", "read_fs"} => Loaded(fs_file, fs_code)

\* C3 witness: both files are loaded, and they hold two different bytes and none.
LoadedTwoByteFile ==
    /\ pc = "create_window"
    /\ Len(vs_file) >= 2 /\ vs_file[1] # vs_file[2]
    /\ Len(fs_file) = 0

\* C4: the globals window_width and window_height hold the size of the most
\* recently dispatched resize event, and 1280x720 before any resize.
ResizeUpdatesGlobals ==
    /\ last_size = <<>> => (window_width = 1280 /\ window_height = 720)
    /\ last_size # <<>> => (window_width = last_size[1] /\ window_height = last_size[2])

\* The rectangle's vertex array: element buffer of 6 indices over 4 vertices.
RectGeometry ==
    /\ RECT_VAO \in DOMAIN vaos
    /\ vaos[RECT_VAO].element_buffer = EBO
    /\ vaos[RECT_VAO].attrib0.buffer = RECT_VBO
    /\ Len(buffers[EBO].data) = 6
    /\ Len(buffers[RECT_VBO].data) = 4 * vaos[RECT_VAO].attrib0.size
    /\ \A i \in 1..6 : buffers[EBO].data[i] \in 0..3

\* No glBufferData call is made once the loop has been entered: the three
\* uploads of lines 150, 179 and 184 are all there are.
BuffersImmutable ==
    loop_entered =>
        /\ buffer_data_calls = Cardinality(DOMAIN buffers)
        /\ buffers[VBO].data = vertices
        /\ buffers[RECT_VBO].data = rect_vertices
        /\ buffers[EBO].data = indices

\* C5 as stated: at every glDrawElements call shader_program, linked, is the
\* active program and RECT_VAO is bound; no buffer is written after the loop
\* has been entered.
DrawUsesLinkedProgram ==
    /\ pc = "draw" =>
          /\ current_program = shader_program
          /\ programs[shader_program].link_status
          /\ bound_vao = RECT_VAO
          /\ RectGeometry
    /\ BuffersImmutable

\* C5 amended: at every glDrawElements call RECT_VAO is bound, and the active
\* program is shader_program if its link succeeded and none (0) if it failed;
\* no buffer is written after the loop has been entered.
DrawUsesProgramIfLinked ==
    /\ pc = "draw" =>
          /\ current_program =
                (IF programs[shader_program].link_status THEN shader_program ELSE 0)
          /\ bound_vao = RECT_VAO
          /\ RectGeometry
    /\ BuffersImmutable

\* C5 witness: a draw call is about to be issued with the linked program active.
DrawWithLinkedProgram ==
    /\ pc = "draw" /\ bound_vao = RECT_VAO
    /\ programs[shader_program].link_status /\ current_program = shader_program

\* C6: ERROR::SHADER::PROGRAM::COMPILATION_FAILED is printed exactly when
\* glLinkProgram failed, the value tested being the program's link status.
LinkFailureLogged ==
    shader_program \in DOMAIN programs =>
        /\ sp_success = Bool2Int(programs[shader_program].link_status)
        /\ Printed("ERROR::SHADER::PROGRAM::COMPILATION_FAILED")
              <=> ~programs[shader_program].link_status

\* The compile diagnostics printed are those of exactly the stages that failed.
StagesLogged ==
    /\ vertex_shader \in DOMAIN shaders =>
          (Printed("ERROR::SHADER::VERTEX::COMPILATION_FAILED")
              <=> ~shaders[vertex_shader].compile_status)
    /\ fragment_shader \in DOMAIN shaders =>
          (Printed("ERROR::SHADER::FRAGMENT::COMPILATION_FAILED")
              <=> ~shaders[fragment_shader].compile_status)
    /\ vertex_shader \notin DOMAIN shaders =>
          ~Printed("ERROR::SHADER::VERTEX::COMPILATION_FAILED")
    /\ fragment_shader \notin DOMAIN shaders =>
          ~Printed("ERROR::SHADER::FRAGMENT::COMPILATION_FAILED")

\* Everything between compilation and the loop has been done.
PipelineBuilt ==
    /\ DOMAIN shaders = {vertex_shader, fragment_shader}
    /\ shader_program \in DOMAIN programs
    /\ programs[shader_program].attached = {vertex_shader, fragment_shader}
    /\ \A s \in DOMAIN shaders : shaders[s].delete_flag
    /\ RectGeometry
    /\ buffer_data_calls = 3

\* C7: whatever the two compile outcomes, the diagnostics printed are those of
\* exactly the failed stages, main still attaches, links, deletes both shaders,
\* uploads the geometry and enters the render loop, and the exit code does not
\* depend on the outcomes.
CompileFailureNotFatal ==
    /\ []StagesLogged
    /\ [](loop_entered => PipelineBuilt)
    /\ [](pc = "done" /\ glad = "loaded" => exit_code = 0)
    /\ \A v \in BOOLEAN, f \in BOOLEAN :
          (/\ pc = "link"
           /\ shaders[vertex_shader].compile_status = v
           /\ shaders[fragment_shader].compile_status = f) ~> loop_entered

\* C7 witness: the loop was entered and left with both stages failed to compile.
LoopEnteredWithBothStagesFailed ==
    /\ pc = "done" /\ loop_entered /\ exit_code = 0
    /\ vs_success = 0 /\ fs_success = 0
    /\ Printed("ERROR::SHADER::VERTEX::COMPILATION_FAILED")
    /\ Printed("ERROR::SHADER::FRAGMENT::COMPILATION_FAILED")

\* C8: every index read_entire_file stores to lies inside the malloc'ed block,
\* 0 .. size-1.
LoaderWritesInBounds ==
    \A code \in {vs_code, fs_code} :
        \A i \in code.written : 0 <= i /\ i <= code.size - 1 /\ i < code.alloc

\* The string handed to glShaderSource is the file followed by a 0 byte the
\* loader stored at index n.
Terminated(file, code, shader) ==
    /\ code.data[Len(file)] = 0
    /\ Len(file) \in code.written
    /\ shader.source = file

\* C9: at each glShaderSource call the buffer holds the n file bytes followed by
\* a 0 byte at index n written by the loader, so the source the GPU sees is the
\* file's contents.
ShaderSourceTerminated ==
    /\ vertex_shader \in DOMAIN shaders =>
          Terminated(vs_file, vs_code, shaders[vertex_shader])
    /\ fragment_shader \in DOMAIN shaders =>
          Terminated(fs_file, fs_code, shaders[fragment_shader])

\* C10: whenever main returns after glfwInit, glfwTerminate has been called
\* exactly once.
TerminateOnEveryExit ==
    (pc = "done" /\ glfw_init) => terminate_calls = 1
====
